---- MODULE Spec2Model ----
(***************************************************************************)
(* Model of SumVid Learn.                                                  *)
(*                                                                         *)
(* Backend (backend/routes/api.js): the per-user daily usage counter, the  *)
(* quota gate each generation endpoint runs (reset, SELECT + limit check,  *)
(* increment), the provider call, the responses, and the post-processing   *)
(* of a flashcard response.                                                *)
(*                                                                         *)
(* Extension: the content cache (ContentGenerator, ChatManager), the quiz  *)
(* panel (QuizUIController, sidebar.js), the usage check and status cards  *)
(* (UsageManager, sidebar.js) and the background script's calls to the     *)
(* backend (callBackendAPI).                                               *)
(*                                                                         *)
(* Each handler is an async function: between two awaits it runs without   *)
(* interruption, and every awaited operation is one atomic step.  One      *)
(* action of the model is one awaited operation together with the          *)
(* synchronous code that follows it.  Each component has its own           *)
(* specification; the variables of the other components stay at rest.      *)
(***************************************************************************)
EXTENDS Integers, FiniteSets, Sequences, TLC

(* ----------------------------- bounds --------------------------------- *)
(* MaxTicks : how many times the wall clock is advanced                    *)
(* MaxSlots : how far under the limit a user's counter may start           *)
MaxTicks == 1
MaxSlots == 2

(* ------------------------- program constants --------------------------- *)
DefaultLimit == 10
MINUTE == 60 * 1000
SECOND == MINUTE \div 60
DAY == 24 * 60 * 60 * 1000

(* The two requests of one user that the server may be handling at once.   *)
Procs == {1, 2}
NoVal == 0 - 1

GatedEndpoints == {"summarize", "quiz", "qa", "chat", "flashcards"}
Endpoints == GatedEndpoints \cup {"processFile"}

(* Request bodies, by what the handlers' validation distinguishes:         *)
(*   missing : the required field is absent (first validation fails)       *)
(*   short   : content present but shorter than the minimum after cleaning *)
(*   ok      : a body that passes every validation                         *)
Bodies == {"missing", "short", "ok"}
(* Uploaded files of /process-file, by mimetype class.                     *)
Files == {"nofile", "pdf", "pdfEmpty", "image", "other"}

(* Clock steps: just under, exactly, and just over the reset window.       *)
Steps == {DAY - MINUTE, DAY, DAY + SECOND}

(* The users row (enhancements_used, enhancements_limit and                *)
(* subscription_status as in the SELECTs of api.js and the INSERT of       *)
(* auth.js; last_reset_at is the reset stamp kept by config/usage.js),     *)
(* the wall clock in milliseconds, and the requests being handled.         *)
VARIABLES now, ticks, userExists, subscription_status, enhancements_used,
          enhancements_limit, last_reset_at, req

(* The extension's content cache (chrome.storage.local entries keyed       *)
(* `${type}_${videoId}`): the timestamp of each stored entry, the cache    *)
(* operation in progress or last completed, and the startup sweep.         *)
VARIABLES storage, cacheOp, sweep

cacheVars == <<storage, cacheOp, sweep>>

(* The quiz panel: which script rendered it, totalQuestions,               *)
(* currentQuestionIndex, the radio selected in each question, whether a    *)
(* handler threw, and the last result that was reported.                   *)
VARIABLES quiz

(* The post-processing of one provider response by POST /flashcards: the   *)
(* response text and the cards the handler returns for it.                 *)
VARIABLES flash

(* The extension's calls to the server: the token stored under             *)
(* sumvid_auth_token, the local usage mirror (UsageTracker), what the      *)
(* usage check decided and the status cards show, and the generation       *)
(* request the background script is serving.                               *)
VARIABLES authToken, localUsed, ui, gen

callVars == <<authToken, localUsed, ui, gen>>

(* The summary and quiz panels of the sidebar: the generation handler in   *)
(* progress, the loading spinner of each panel and what the handler ended  *)
(* with.                                                                   *)
VARIABLES panel

(* The sidebar's message channel to the content script, the upload gate   *)
(* of the file manager, the tab bar, and the flashcard slideshow.          *)
VARIABLES msg, upload, tabs, deck

widgetVars == <<msg, upload, tabs, deck>>

uiVars == <<quiz, flash, callVars, panel, widgetVars>>

clientVars == <<cacheVars, uiVars>>

(* The account's credentials and the password-reset requests in flight.   *)
VARIABLES auth

otherVars == <<clientVars, auth>>

vars == <<now, ticks, userExists, subscription_status, enhancements_used,
          enhancements_limit, last_reset_at, req, auth, clientVars>>

userRow == <<userExists, subscription_status, enhancements_used,
             enhancements_limit, last_reset_at>>

(* A request slot.  pc is the await the handler is suspended on.           *)
(*   route      : "gated" for the five generation handlers, "file" for     *)
(*                /process-file                                            *)
(*   late       : the cleaned content of this request is under the         *)
(*                handler's minimum length (decided by the request body)   *)
(*   didReset   : resetDailyUsageIfNeeded has completed for this request   *)
(*   incs       : increments this request applied to the counter           *)
(*   provider   : the completion provider was called                       *)
(*   status, via, respUsed, respLimit : the response; via names the 403    *)
(*                that was sent ("check" or "increment")                   *)
IdleReq == [pc |-> "idle", route |-> "none", late |-> FALSE,
            didReset |-> FALSE, incs |-> 0, provider |-> FALSE,
            status |-> 0, via |-> "none",
            respUsed |-> NoVal, respLimit |-> NoVal]

(* ------------------- UsageStore (config/usage.js) ---------------------- *)
(* resetDailyUsageIfNeeded: when at least 24 hours have passed since the   *)
(* last reset, the counter becomes 0 and the reset stamp becomes now;      *)
(* otherwise the row is left as it is.  The result is the row's new        *)
(* counter and stamp.                                                      *)
resetDailyUsageIfNeededStrict(t, used, last) ==
    IF t - last > DAY THEN [used |-> 0, last |-> t]
                      ELSE [used |-> used, last |-> last]

resetDailyUsageIfNeeded(t, used, last) ==
    IF t - last >= DAY THEN [used |-> 0, last |-> t]
                       ELSE [used |-> used, last |-> last]

(* incrementUsage: one conditional update.  It adds 1 when the user is     *)
(* premium or the counter is under the limit, and otherwise fails leaving  *)
(* the counter unchanged.                                                  *)
incrementUsageUnconditional(sub, used, limit) ==
    [success |-> TRUE, used |-> used + 1]

incrementUsage(sub, used, limit) ==
    IF sub = "premium" \/ used < limit
    THEN [success |-> TRUE, used |-> used + 1]
    ELSE [success |-> FALSE, used |-> used]

(* ------------------------- the handlers' checks ------------------------ *)
(* if (user.enhancements_used >= user.enhancements_limit) -> 403           *)
LimitReachedOffByOne(used, limit) == used + 1 >= limit

LimitReached(used, limit) == used >= limit

(* The first validation of each endpoint (missing required input).         *)
FirstValidationFails(ep, body) == body = "missing"

(* The validation that follows the increment: /summarize rejects cleaned   *)
(* content under 10 characters, /flashcards under 50; /quiz re-tests a     *)
(* value the first validation already established.                         *)
LateValidationFails(ep, body) ==
    ep \in {"summarize", "flashcards"} /\ body = "short"

(* The await a gated handler reaches after its first validation.           *)
FirstAwaitSkipsReset(ep) == "select"

FirstAwait(ep) == "reset"

(* The 403 body of the limit check: the counters of the row just read.     *)
QuotaBodyNoCounters(r, used, limit) ==
    [r EXCEPT !.pc = "done", !.status = 403, !.via = "check", !.late = FALSE]

QuotaBody(r, used, limit) ==
    [r EXCEPT !.pc = "done", !.status = 403, !.via = "check", !.late = FALSE,
              !.respUsed = used, !.respLimit = limit]

(* The 403 sent when incrementUsage reports failure: its usage object.     *)
IncrementFailedIgnored(r, used, limit) == [r EXCEPT !.pc = "provider"]

IncrementFailed(r, used, limit) ==
    [r EXCEPT !.pc = "done", !.status = 403, !.via = "increment",
              !.late = FALSE, !.respUsed = used, !.respLimit = limit]

Respond(r, code) == [r EXCEPT !.pc = "done", !.status = code, !.late = FALSE]

(* --------------------------- ContentCache ------------------------------ *)
CACHE_EXPIRY_TIME == 24 * 60 * 60 * 1000

(* How many times the client's wall clock is advanced while the cache is   *)
(* read, and while the sweep runs.                                         *)
MaxCacheTicks == 2
MaxSweepTicks == 3

(* Clock steps around the sweep: an entry can pass from fresh to expired   *)
(* between two of them.                                                    *)
SweepSteps == {DAY - MINUTE, 2 * MINUTE}

(* Client clock steps: just under, exactly, and just over the expiry.      *)
CacheSteps == {DAY - MINUTE, DAY, DAY + MINUTE}

(* The types saveGeneratedContent / saveChatToCache are called with.       *)
CacheTypes == {"summary", "quiz", "chat"}

(* Page URLs by what new URL(url).searchParams.get('v') makes of them:     *)
(* not a URL (the constructor throws), a URL without a v parameter, a URL  *)
(* with an empty v, and a video URL.                                       *)
Urls == {"notAUrl", "noParam", "emptyV", "video"}

NullId == "null"

getVideoId(url) ==
    CASE url = "notAUrl" -> NullId
      [] url = "noParam" -> NullId
      [] url = "emptyV"  -> ""
      [] OTHER           -> "a"

(* !videoId                                                                *)
FalsyNothing(id) == FALSE

Falsy(id) == id \in {NullId, ""}

VideoIds == {"a"}

(* A storage key `${type}_${videoId}`, also the keys a null or empty       *)
(* identity would produce.                                                 *)
CacheKeys == CacheTypes \X (VideoIds \cup {NullId, ""})

(* Date.now() - data.timestamp > CACHE_EXPIRY_TIME                         *)
IsExpiredNever(t, ts) == FALSE

IsExpired(t, ts) == t - ts > CACHE_EXPIRY_TIME

(* key.startsWith('summary_') || key.startsWith('quiz_') ||                *)
(* key.startsWith('chat_')                                                 *)
SweptTypesNoChat == {"summary", "quiz"}

SweptTypes == {"summary", "quiz", "chat"}

IdleOp == [op |-> "none", pc |-> "idle", type |-> "none", id |-> NullId,
           result |-> "none", ts |-> NoVal, at |-> NoVal, touched |-> FALSE]

IdleSweep == [pc |-> "idle", at |-> NoVal, keysToRemove |-> {}]

CacheIdle ==
    /\ storage = [k \in CacheKeys |-> NoVal]
    /\ cacheOp = IdleOp
    /\ sweep = IdleSweep

(* ------------------------------ Quiz ----------------------------------- *)
(* Largest quiz that is rendered, and how many times in a row the next     *)
(* button is followed.                                                     *)
MaxQuestions == 3
MaxClicks == 5

(* The two scripts that render and score a quiz: the QuizUIController /    *)
(* ContentGenerator class and the stand-alone sidebar.js.                  *)
QuizImpls == {"controller", "sidebar"}

(* A question's radio group: nothing checked, the checked value equals     *)
(* .correct-answer, or it differs.                                         *)
Selections == {"none", "right", "wrong"}

Max(a, b) == IF a >= b THEN a ELSE b
Min(a, b) == IF a <= b THEN a ELSE b

(* Math.round(n / d) for n >= 0, d > 0.                                    *)
Round(n, d) == (2 * n + d) \div (2 * d)

(* Math.max(0, Math.min(totalQuestions - 1, currentQuestionIndex +         *)
(* direction))                                                             *)
navigateQuestionsWrap(total, index, direction) ==
    (index + direction + total) % total

navigateQuestions(total, index, direction) ==
    Max(0, Min(total - 1, index + direction))

(* showQuizResultsDialog: the class suffix of the result message.          *)
showQuizResultsDialog(correctAnswers, totalQuestions) ==
    LET percentage == Round(correctAnswers * 100, totalQuestions)
    IN  IF percentage = 100 THEN "win"
        ELSE IF correctAnswers = 2 THEN "ok"
        ELSE IF correctAnswers = 1 THEN "partial"
        ELSE "fail"

(* sidebar.js checkQuizAnswers: the result class, from the percentage      *)
(* rounded to one decimal place (kept here in tenths of a percent).        *)
resultClass(correctAnswers, totalQuestions) ==
    LET tenths == Round(correctAnswers * 100 * 10, totalQuestions)
    IN  IF tenths >= 80 * 10 THEN "good"
        ELSE IF tenths >= 60 * 10 THEN "okay"
        ELSE "poor"

NoResult == [tier |-> "none", correct |-> 0, total |-> 0, answered |-> 0]

IdleQuiz == [impl |-> "none", totalQuestions |-> 0, currentQuestionIndex |-> 0,
             selected |-> [q \in 1..MaxQuestions |-> "none"],
             nexts |-> 0, threw |-> FALSE, result |-> NoResult]

(* ----------------------- flashcard post-processing --------------------- *)
(* Longest provider response, in pieces, and the size of a response part   *)
(* that is longer than the card limit.                                     *)
MaxPieces == 3
ManyCount == 11

(* .slice(0, 10)                                                           *)
CardLimit == 10

(* A provider response is a concatenation of pieces:                       *)
(*   text     : prose without brackets or line breaks                      *)
(*   textBr   : prose that contains a bracketed word, `t [t] t`            *)
(*   nl       : a line break                                               *)
(*   array    : a JSON array of two card objects                           *)
(*   bigArray : a JSON array of ManyCount card objects                     *)
(*   obj      : one card object outside any array                          *)
(*   lines    : ManyCount lines of prose                                   *)
Pieces == {"text", "textBr", "nl", "array", "bigArray", "obj", "lines"}

RECURSIVE Repeat(_, _)
Repeat(s, n) == IF n = 0 THEN <<>> ELSE s \o Repeat(s, n - 1)

(* The characters of a piece, by class: t prose, [ and ], c a card object  *)
(* (with its separating comma), n a line break.                            *)
Chars(piece) ==
    CASE piece = "text" -> <<"t">>
      [] piece = "textBr" -> <<"t", "[", "t", "]", "t">>
      [] piece = "nl" -> <<"n">>
      [] piece = "array" -> <<"[", "c", "c", "]">>
      [] piece = "bigArray" -> <<"[">> \o Repeat(<<"c">>, ManyCount) \o <<"]">>
      [] piece = "obj" -> <<"c">>
      [] OTHER -> Repeat(<<"t", "n">>, ManyCount)

RECURSIVE Text(_)
Text(pieces) ==
    IF pieces = <<>> THEN <<>> ELSE Chars(Head(pieces)) \o Text(Tail(pieces))

Responses == UNION {[1..n -> Pieces] : n \in 0..MaxPieces}

Count(s, ch) == Cardinality({i \in 1..Len(s) : s[i] = ch})

(* response.match(/\[[\s\S]*\]/): the leftmost [ up to the last ], or no    *)
(* match (<<>>) when no ] follows a [.                                     *)
jsonMatch(s) ==
    LET opens == {i \in 1..Len(s) : s[i] = "["}
        closes == {i \in 1..Len(s) : s[i] = "]"}
    IN  IF opens = {} \/ closes = {} THEN <<>>
        ELSE LET first == CHOOSE i \in opens : \A j \in opens : i <= j
                 last == CHOOSE i \in closes : \A j \in closes : i >= j
             IN  IF first < last THEN SubSeq(s, first, last) ELSE <<>>

(* Bracket depth after the first i characters of s.                        *)
RECURSIVE Depth(_, _)
Depth(s, i) ==
    IF i = 0 THEN 0
    ELSE Depth(s, i - 1)
           + (IF s[i] = "[" THEN 1 ELSE IF s[i] = "]" THEN 0 - 1 ELSE 0)

(* JSON.parse of a text that starts with [ and ends with ]: it is one      *)
(* array when it holds no prose and its first bracket closes at its end.   *)
IsJsonArray(s) ==
    /\ Len(s) >= 2
    /\ s[1] = "[" /\ s[Len(s)] = "]"
    /\ \A i \in 1..Len(s) : s[i] # "t"
    /\ \A i \in 1..(Len(s) - 1) : Depth(s, i) >= 1
    /\ Depth(s, Len(s)) = 0

(* The elements of a parsed array that pass the filter: card objects at    *)
(* the top level (nested arrays have no question or answer).               *)
TopLevelCards(s) ==
    Cardinality({i \in 1..Len(s) : s[i] = "c" /\ Depth(s, i) = 1})

(* JSON.parse of a text without a bracket pair succeeds when the text is   *)
(* one object; the value is not an array.                                  *)
IsJsonObject(s) ==
    /\ Count(s, "c") = 1
    /\ \A i \in 1..Len(s) : s[i] \in {"c", "n"}

(* response.split('\n').filter(line => line.trim()): the number of lines   *)
(* that are not blank.                                                     *)
NonBlankLines(s) ==
    Cardinality({i \in 1..Len(s) :
                   s[i] # "n" /\ (i = 1 \/ s[i - 1] = "n")})

(* The handler's post-processing: the cards it returns and where they came *)
(* from ("json": the parsed value, "lines": the line fallback).            *)
parseFlashcards(s) ==
    LET m == jsonMatch(s)
        parsed == IF m # <<>> THEN IsJsonArray(m) ELSE IsJsonObject(s)
        found == IF m # <<>> THEN TopLevelCards(m) ELSE 0
    IN  IF parsed
        THEN [status |-> 200, from |-> "json", n |-> Min(found, CardLimit)]
        ELSE [status |-> 200, from |-> "lines",
              n |-> Min(NonBlankLines(s), CardLimit)]

IdleFlash == [response |-> <<>>, pc |-> "idle",
              result |-> [status |-> 0, from |-> "none", n |-> 0]]

(* --------------------------- client calls ------------------------------ *)
(* The stored token: none, one the server accepts, one it rejects.         *)
Tokens == {"none", "valid", "expired"}

(* What a fetch to the server ends with when the token is accepted: an     *)
(* HTTP status, or a rejected promise (network error, no status).          *)
NetErr == 0
Replies == {200, 403, 500, NetErr}

(* The status the client sees: 401 when the server rejects the token.      *)
StatusOf(token, reply) ==
    IF reply = NetErr THEN NetErr
    ELSE IF token # "valid" THEN 401
    ELSE reply

(* response.ok                                                             *)
Ok(status) == status = 200

(* The background script's generation actions and the endpoint each posts  *)
(* to; generate-quiz without a summary first posts to /api/summarize.      *)
GenActions == {"summarize", "generate-quiz", "generate-flashcards"}
GenEndpoints == {"summarize", "quiz", "flashcards"}

EndpointOf(action) ==
    CASE action = "summarize" -> "summarize"
      [] action = "generate-quiz" -> "quiz"
      [] OTHER -> "flashcards"

(* callBackendAPI on a 401: await clearAuthToken() before throwing.        *)
TokenAfter(token, status) == IF status = 401 THEN "none" ELSE token

(* Where a generation handler goes after one callBackendAPI returned or    *)
(* threw: the summary made for a quiz is followed by the quiz call whether *)
(* or not it succeeded, anything else ends the handler (sendResponse).     *)
AfterCallRetry(action, endpoint, failed) ==
    IF failed THEN endpoint
    ELSE IF action = "generate-quiz" /\ endpoint = "summarize" THEN "quiz"
    ELSE "done"

AfterCall(action, endpoint, failed) ==
    IF action = "generate-quiz" /\ endpoint = "summarize" THEN "quiz"
    ELSE "done"

(* data.enhancementsUsed || 0, data.enhancementsLimit || 10                *)
OrDefault(v, d) == IF v = 0 THEN d ELSE v

NoCheck == [by |-> "none", serverOk |-> FALSE, from |-> "none",
            limitReached |-> FALSE]
NoCards == [by |-> "none", serverOk |-> FALSE, from |-> "none",
            enhancementsUsed |-> NoVal, enhancementsLimit |-> NoVal]

IdleUi == [check |-> NoCheck, cards |-> NoCards, file |-> "none"]

IdleGen == [pc |-> "idle", action |-> "none",
            backend |-> [e \in GenEndpoints |-> 0],
            provider |-> [e \in GenEndpoints |-> 0],
            outcome |-> "none", usedBefore |-> 0]

CallsIdle ==
    /\ authToken = "none"
    /\ localUsed = 0
    /\ ui = IdleUi
    /\ gen = IdleGen

(* ------------------------- generation panels --------------------------- *)
(* currentVideoInfo?.duration > 3600                                       *)
LongVideoLimit == 3600

LongVideo(duration) == duration > LongVideoLimit

(* Video lengths on both sides of the limit.                               *)
Durations == {LongVideoLimit, LongVideoLimit + 1}

PanelImpls == {"controller", "sidebar"}
PanelKinds == {"summary", "quiz"}

(* What chrome.runtime.sendMessage ends with: a response with the          *)
(* artifact, a response with an error, or a rejected promise.              *)
MessageResults == {"ok", "error", "throws"}

(* The key of the one video that is open.                                  *)
PanelKey(kind) == <<kind, "a">>

(* What a regenerate click removes from the cache before it generates:     *)
(* the sidebar.js summary handler clears all three artifacts of the video, *)
(* its quiz handler the quiz, handleGenerateQuiz(true) nothing.            *)
ClearedOnRegenerate(impl, kind) ==
    IF impl # "sidebar" THEN {}
    ELSE IF kind = "summary" THEN {PanelKey(t) : t \in CacheTypes}
    ELSE {PanelKey("quiz")}

(* Whether the handler hides the spinner when the generation message       *)
(* failed: only generateQuiz of sidebar.js calls showCompletionBadge on    *)
(* its error paths.                                                        *)
BadgeOnFailure(impl, kind) == impl = "sidebar" /\ kind = "quiz"

IdlePanel == [impl |-> "none", kind |-> "none", pc |-> "idle",
              force |-> FALSE, premium |-> FALSE, duration |-> 0,
              hadCache |-> FALSE, outcome |-> "none",
              spinner |-> [k \in PanelKinds |-> FALSE]]

PanelIdle == panel = IdlePanel

(* ---------------------- sendMessageWithTimeout ------------------------- *)
(* async function sendMessageWithTimeout(message, maxRetries = 3)          *)
DefaultMaxRetries == 3

(* The largest maxRetries a caller passes.                                 *)
MaxRetryArg == 4

(* setTimeout(attemptSend, 1000 * retryCount)                              *)
BackoffUnit == 1000

(* The maxRetries argument: omitted, or a positive count.                  *)
RetryArgs == {NoVal} \cup 1..MaxRetryArg

(* What a chrome callback reports: lastError set, no active tab, a         *)
(* response, or an undefined response.                                     *)
QueryOutcomes == {"lastError", "noTab", "tab"}
SendOutcomes == {"lastError", "response", "undefined"}

(* handleRetry: one more failure is counted; another attempt is scheduled  *)
(* while the count is under maxRetries, otherwise the promise resolves     *)
(* with an error.                                                          *)
handleRetryOneMore(m) ==
    LET retryCount == m.retryCount + 1
    IN  IF retryCount <= m.maxRetries
        THEN [m EXCEPT !.retryCount = retryCount, !.pc = "timer",
                       !.delay = BackoffUnit * retryCount]
        ELSE [m EXCEPT !.retryCount = retryCount, !.pc = "resolved",
                       !.result = "error"]

handleRetry(m) ==
    LET retryCount == m.retryCount + 1
    IN  IF retryCount < m.maxRetries
        THEN [m EXCEPT !.retryCount = retryCount, !.pc = "timer",
                       !.delay = BackoffUnit * retryCount]
        ELSE [m EXCEPT !.retryCount = retryCount, !.pc = "resolved",
                       !.result = "error"]

(* attemptSend up to its first callback: without chrome.runtime the        *)
(* promise resolves with an error, a throw is caught and handed to         *)
(* handleRetry, otherwise chrome.tabs.query is pending.                    *)
attemptSend(m, runtime, throws) ==
    LET a == [m EXCEPT !.attempts = @ + 1]
    IN  IF ~runtime THEN [a EXCEPT !.pc = "resolved", !.result = "error"]
        ELSE IF throws THEN handleRetry(a)
        ELSE [a EXCEPT !.pc = "query"]

(* The messages the sidebar sends to the content script.                   *)
Messages == {"REQUEST_CONTENT_INFO", "GET_BASIC_VIDEO_INFO",
             "REQUEST_VIDEO_INFO"}

IdleMsg == [pc |-> "idle", message |-> "none", maxRetries |-> 0,
            retryCount |-> 0, attempts |-> 0, delay |-> 0, result |-> "none"]
(* --------------------------- upload gate ------------------------------- *)
(* How many uploads are accepted, and how many times the clock advances.   *)
MaxUploads == 3
MaxUploadTicks == 2

(* Clock steps around the 24 hours of the upload limit.                    *)
UploadSteps == {DAY - SECOND, DAY}

UploadKinds == {"file", "screenshot"}

(* checkUploadLimit for a user who is not premium, on the timestamp read   *)
(* from chrome.storage.local: refused while fewer than 24 hours have       *)
(* passed since the last upload.                                           *)
UploadAllowed(t, lastUpload) ==
    ~(lastUpload # NoVal /\ t - lastUpload < DAY)

IdleSlot == [pc |-> "idle", kind |-> "none"]

IdleUpload == [premium |-> FALSE, lastFileUploadTimestamp |-> NoVal,
               accepted |-> <<>>, slot |-> [p \in Procs |-> IdleSlot]]
(* ------------------------------ tab bar -------------------------------- *)
(* How many switchTab calls may be awaiting the render of one tab.         *)
MaxPending == 2

TabNames == {"chat", "summarize", "flashcards", "quiz", "notes"}

(* The tabs whose content switchTab renders, awaiting the render.          *)
RenderedTabs == {"flashcards", "quiz", "notes"}

(* The tab contents that carry the class active after the synchronous part *)
(* of switchTab(tabName): the class is removed from every tab content and  *)
(* added to #tab-<tabName>.                                                *)
ActiveAfterAdded(active, tabName) == active \cup {tabName}

ActiveAfter(active, tabName) == {tabName}

(* The state the constructor leaves: init() ends with switchTab('chat').   *)
IdleTabs == [activeTab |-> "chat", active |-> {"chat"},
             buttons |-> {"chat"},
             transparent |-> {},
             pending |-> [t \in RenderedTabs |-> 0],
             rendered |-> "none"]
(* ------------------------ flashcard slideshow -------------------------- *)
(* The largest small flashcard set; ManyCount cards make a set that is cut *)
(* to the first ten.                                                       *)
MaxDeck == 2

(* The number of cards of currentFlashcardSet; NoVal when there is no set. *)
DeckSizes == {NoVal, ManyCount} \cup 0..MaxDeck

(* cards.slice(0, 10).length                                               *)
CardsToShow(count) == Min(CardLimit, count)

(* The index renderFlashcardSlideshow renders: an index without a card is  *)
(* reset to 0 and the render retried.                                      *)
RenderedIndexKept(index, len) == index

RenderedIndex(index, len) == IF index >= len THEN 0 ELSE index

(* renderFlashcardSlideshow: nothing without a set, the empty message      *)
(* without cards, otherwise the card at the index with its click handlers, *)
(* which close over cardsToShow.                                           *)
renderFlashcardSlideshow(d) ==
    IF d.count = NoVal THEN d
    ELSE LET len == CardsToShow(d.count)
         IN  IF len = 0
             THEN [d EXCEPT !.shownLen = 0, !.shownIndex = NoVal,
                            !.flipped = FALSE]
             ELSE LET i == RenderedIndex(d.index, len)
                  IN  [d EXCEPT !.index = i, !.shownLen = len,
                                !.shownIndex = i, !.flipped = FALSE]

IdleDeck == [count |-> NoVal, index |-> 0, shownLen |-> 0,
             shownIndex |-> NoVal, flipped |-> FALSE, pending |-> FALSE,
             last |-> "none"]

WidgetsIdle ==
    msg = IdleMsg /\ upload = IdleUpload /\ tabs = IdleTabs /\ deck = IdleDeck

UiIdle ==
    quiz = IdleQuiz /\ flash = IdleFlash /\ CallsIdle /\ PanelIdle /\ WidgetsIdle

ClientIdle == CacheIdle /\ UiIdle

(* ------------------------- password reset ------------------------------ *)
(* How many reset tokens are issued.                                       *)
MaxTokens == 2

(* expiresAt.setHours(expiresAt.getHours() + 1)                            *)
HOUR == 60 * MINUTE

(* Clock steps up to and just past the life of a reset token.              *)
AuthSteps == {HOUR, HOUR + SECOND}

(* Submitted email addresses of valid format: the account's, and one no    *)
(* account has.                                                            *)
ValidEmails == {"member@x.io", "stranger@x.io"}

Registered(email) == email = "member@x.io"

(* NULL in password_reset_token, and token: null in a response.            *)
NoToken == 0

TokenInputs == 0..MaxTokens

(* Submitted passwords: none, one under 8 characters, one acceptable.      *)
PasswordInputs == {"", "short", "password1"}

TooShort(newPassword) == newPassword = "short"

NoResponse == [status |-> 0, message |-> "none", token |-> NoToken]

(* The body of the forgot-password response for an address that has no     *)
(* account.                                                                *)
UnknownEmailBody ==
    [status |-> 200,
     message |-> "If an account exists with this email, a password reset token has been generated",
     token |-> NoToken]

(* What the caller can tell apart: the status, the message, and whether a  *)
(* token came back (its value is random).                                  *)
Visible(resp) == [status |-> resp.status, message |-> resp.message,
                  hasToken |-> resp.token # NoToken]

IdleReset == [pc |-> "idle", email |-> "", token |-> NoToken,
              newPassword |-> "", status |-> 0]

IdleAuth == [password_hash |-> "initial",
             password_reset_token |-> NoToken,
             password_reset_expires |-> 0,
             issued |-> 0,
             changes |-> [t \in 1..MaxTokens |-> 0],
             forgot |-> [e \in ValidEmails |-> NoResponse],
             reset |-> [p \in Procs |-> IdleReset]]

ServerIdle ==
    /\ ticks = 0
    /\ userExists = TRUE
    /\ subscription_status = "freemium"
    /\ enhancements_limit = DefaultLimit
    /\ enhancements_used = 0
    /\ last_reset_at = 0
    /\ req = [p \in Procs |-> IdleReq]
    /\ auth = IdleAuth

serverVars == <<userRow, req, auth>>

(* ------------------------------ Init ----------------------------------- *)
Init ==
    /\ now = 0
    /\ ticks = 0
    /\ userExists \in BOOLEAN
    /\ subscription_status \in {"freemium", "premium"}
    /\ enhancements_limit = DefaultLimit
    /\ enhancements_used \in (DefaultLimit - MaxSlots)..DefaultLimit
    /\ last_reset_at = 0
    /\ req = [p \in Procs |-> IdleReq]
    /\ auth = IdleAuth
    /\ ClientIdle

(* ----------------------------- actions --------------------------------- *)
(* Wall-clock time passes.                                                 *)
Tick(d) ==
    /\ ticks < MaxTicks
    /\ now' = now + d
    /\ ticks' = ticks + 1
    /\ UNCHANGED <<userRow, req, otherVars>>

(* A request to a gated endpoint arrives; the handler runs its first       *)
(* validation and, when it passes, awaits resetDailyUsageIfNeeded.         *)
Arrived(ep, body) ==
    LET r == [IdleReq EXCEPT !.route = "gated",
                             !.late = LateValidationFails(ep, body)]
    IN  IF FirstValidationFails(ep, body) THEN Respond(r, 400)
        ELSE [r EXCEPT !.pc = FirstAwait(ep)]

Start(p, ep, body) ==
    /\ req[p].pc \in {"idle", "done"}
    /\ ep \in GatedEndpoints
    /\ req' = [req EXCEPT ![p] = Arrived(ep, body)]
    /\ UNCHANGED <<now, ticks, userRow, otherVars>>

(* await resetDailyUsageIfNeeded(userId)                                   *)
Reset(p) ==
    /\ req[p].pc = "reset"
    /\ IF userExists
       THEN LET row == resetDailyUsageIfNeeded(now, enhancements_used,
                                               last_reset_at)
            IN  /\ enhancements_used' = row.used
                /\ last_reset_at' = row.last
       ELSE UNCHANGED <<enhancements_used, last_reset_at>>
    /\ req' = [req EXCEPT ![p].pc = "select", ![p].didReset = TRUE]
    /\ UNCHANGED <<otherVars, now, ticks, userExists, subscription_status,
                   enhancements_limit>>

(* await query('SELECT enhancements_used, enhancements_limit ...') and the *)
(* 404 / 403 decisions taken on the row it returns.                        *)
SelectAndCheck(p) ==
    /\ req[p].pc = "select"
    /\ req' = [req EXCEPT ![p] =
          IF ~userExists THEN Respond(req[p], 404)
          ELSE IF LimitReached(enhancements_used, enhancements_limit)
               THEN QuotaBody(req[p], enhancements_used, enhancements_limit)
               ELSE [req[p] EXCEPT !.pc = "increment"]]
    /\ UNCHANGED <<now, ticks, userRow, otherVars>>

(* await incrementUsage(userId), the 403 on its failure, and the           *)
(* validation of the cleaned content that follows it.                      *)
Increment(p) ==
    /\ req[p].pc = "increment"
    /\ LET incrementResult == incrementUsage(subscription_status,
                                             enhancements_used,
                                             enhancements_limit)
       IN  /\ enhancements_used' = incrementResult.used
           /\ req' = [req EXCEPT ![p] =
                 IF ~incrementResult.success
                 THEN IncrementFailed(req[p], incrementResult.used,
                                      enhancements_limit)
                 ELSE LET r == [req[p] EXCEPT !.incs = @ + 1]
                      IN  IF r.late THEN Respond(r, 400)
                                    ELSE [r EXCEPT !.pc = "provider"]]
    /\ UNCHANGED <<otherVars, now, ticks, userExists, subscription_status,
                   enhancements_limit, last_reset_at>>

(* await callOpenAI(...) resolves: the handler goes on to read the usage.  *)
ProviderOk(p) ==
    /\ req[p].pc = "provider"
    /\ req[p].route = "gated"
    /\ req' = [req EXCEPT ![p].pc = "usage", ![p].provider = TRUE]
    /\ UNCHANGED <<now, ticks, userRow, otherVars>>

(* await callOpenAI(...) throws: the catch block answers 500.              *)
ProviderFailRefund(p) ==
    /\ req[p].pc = "provider"
    /\ req' = [req EXCEPT ![p] =
                  Respond([req[p] EXCEPT !.provider = TRUE], 500)]
    /\ enhancements_used' = IF req[p].incs > 0 /\ enhancements_used > 0
                            THEN enhancements_used - 1
                            ELSE enhancements_used
    /\ UNCHANGED <<otherVars, now, ticks, userExists, subscription_status,
                   enhancements_limit, last_reset_at>>

ProviderFail(p) ==
    /\ req[p].pc = "provider"
    /\ req' = [req EXCEPT ![p] =
                  Respond([req[p] EXCEPT !.provider = TRUE], 500)]
    /\ UNCHANGED <<now, ticks, userRow, otherVars>>

(* The final SELECT and res.json({..., usage}).                            *)
ReadUsage(p) ==
    /\ req[p].pc = "usage"
    /\ req' = [req EXCEPT ![p] =
                  [req[p] EXCEPT !.pc = "done", !.status = 200,
                                 !.respUsed = enhancements_used,
                                 !.respLimit = enhancements_limit]]
    /\ UNCHANGED <<now, ticks, userRow, otherVars>>

(* POST /process-file: the upload is dispatched on its mimetype; an image  *)
(* is sent to the provider's vision model.                                 *)
ProcessFile(p, f) ==
    /\ req[p].pc \in {"idle", "done"}
    /\ LET r == [IdleReq EXCEPT !.route = "file"]
       IN  req' = [req EXCEPT ![p] =
              CASE f = "nofile"   -> Respond(r, 400)
                [] f = "pdf"      -> Respond(r, 200)
                [] f = "pdfEmpty" -> Respond(r, 400)
                [] f = "image"    -> [r EXCEPT !.pc = "provider"]
                [] OTHER          -> Respond(r, 400)]
    /\ UNCHANGED <<now, ticks, userRow, otherVars>>

(* The vision call of /process-file resolves: res.json without usage.      *)
ProcessFileOk(p) ==
    /\ req[p].pc = "provider"
    /\ req[p].route = "file"
    /\ req' = [req EXCEPT ![p] =
                  Respond([req[p] EXCEPT !.provider = TRUE], 200)]
    /\ UNCHANGED <<now, ticks, userRow, otherVars>>

Next ==
    \/ \E d \in Steps : Tick(d)
    \/ \E p \in Procs, ep \in GatedEndpoints, b \in Bodies : Start(p, ep, b)
    \/ \E p \in Procs : Reset(p)
    \/ \E p \in Procs : SelectAndCheck(p)
    \/ \E p \in Procs : Increment(p)
    \/ \E p \in Procs : ProviderOk(p)
    \/ \E p \in Procs : ProviderFail(p)
    \/ \E p \in Procs : ReadUsage(p)
    \/ \E p \in Procs, f \in Files : ProcessFile(p, f)
    \/ \E p \in Procs : ProcessFileOk(p)

Spec == Init /\ [][Next]_vars

(* The same server when the user's requests arrive one after another: a    *)
(* request is accepted only when no other request is being handled.        *)
NoneInFlight == \A q \in Procs : req[q].pc \in {"idle", "done"}

StartSeq(p, ep, body) == NoneInFlight /\ Start(p, ep, body)

ProcessFileSeq(p, f) == NoneInFlight /\ ProcessFile(p, f)

NextSeq ==
    \/ \E d \in Steps : Tick(d)
    \/ \E p \in Procs, ep \in GatedEndpoints, b \in Bodies : StartSeq(p, ep, b)
    \/ \E p \in Procs : Reset(p)
    \/ \E p \in Procs : SelectAndCheck(p)
    \/ \E p \in Procs : Increment(p)
    \/ \E p \in Procs : ProviderOk(p)
    \/ \E p \in Procs : ProviderFail(p)
    \/ \E p \in Procs : ReadUsage(p)
    \/ \E p \in Procs, f \in Files : ProcessFileSeq(p, f)
    \/ \E p \in Procs : ProcessFileOk(p)

SpecSeq == Init /\ [][NextSeq]_vars

(* ======================= the client's content cache ==================== *)
InitCache ==
    /\ now = DAY
    /\ ServerIdle
    /\ ClientIdle

(* The client's wall clock advances.                                       *)
CacheTick(d) ==
    /\ ticks < MaxCacheTicks
    /\ now' = now + d
    /\ ticks' = ticks + 1
    /\ UNCHANGED <<serverVars, clientVars>>

(* saveGeneratedContent(getVideoId(url), type, content); saveChatToCache   *)
(* writes its entry the same way.                                          *)
Save(url, type) ==
    LET videoId == getVideoId(url)
    IN  /\ storage' = IF Falsy(videoId) THEN storage
                      ELSE [storage EXCEPT ![<<type, videoId>>] = now]
        /\ cacheOp' = IF cacheOp.pc # "idle" THEN cacheOp
                      ELSE [IdleOp EXCEPT !.op = "save", !.type = type,
                               !.id = videoId, !.at = now,
                               !.touched = ~Falsy(videoId),
                               !.result = IF Falsy(videoId) THEN "skipped"
                                          ELSE "written"]
        /\ UNCHANGED <<now, ticks, serverVars, uiVars, sweep>>

(* loadGeneratedContent(getVideoId(url), type) up to the result of         *)
(* chrome.storage.local.get: null identity, no entry, expired entry (the   *)
(* remove is awaited next) or the content.                                 *)
Load(url, type) ==
    LET videoId == getVideoId(url)
        r == [IdleOp EXCEPT !.op = "load", !.type = type, !.id = videoId,
                            !.at = now]
    IN  /\ cacheOp.pc = "idle"
        /\ cacheOp' =
             IF Falsy(videoId) THEN [r EXCEPT !.result = "absent"]
             ELSE LET data == storage[<<type, videoId>>]
                  IN  IF data = NoVal
                      THEN [r EXCEPT !.result = "absent", !.touched = TRUE]
                      ELSE IF IsExpired(now, data)
                      THEN [r EXCEPT !.pc = "removing", !.ts = data,
                                     !.touched = TRUE]
                      ELSE [r EXCEPT !.result = "hit", !.ts = data,
                                     !.touched = TRUE]
        /\ UNCHANGED <<now, ticks, serverVars, uiVars, storage, sweep>>

(* await chrome.storage.local.remove([key]); return null                   *)
LoadRemove ==
    /\ cacheOp.pc = "removing"
    /\ storage' = [storage EXCEPT ![<<cacheOp.type, cacheOp.id>>] = NoVal]
    /\ cacheOp' = [cacheOp EXCEPT !.pc = "idle", !.result = "absent"]
    /\ UNCHANGED <<now, ticks, serverVars, uiVars, sweep>>

(* ChatManager.loadCachedChat(videoId): the stored transcript, when there  *)
(* is one, is rendered into the chat container.                            *)
ChatLoad(url) ==
    LET videoId == getVideoId(url)
        r == [IdleOp EXCEPT !.op = "chatLoad", !.type = "chat",
                            !.id = videoId, !.at = now]
    IN  /\ cacheOp.pc = "idle"
        /\ cacheOp' =
             IF Falsy(videoId) THEN [r EXCEPT !.result = "absent"]
             ELSE LET data == storage[<<"chat", videoId>>]
                  IN  IF data = NoVal
                      THEN [r EXCEPT !.result = "absent", !.touched = TRUE]
                      ELSE [r EXCEPT !.result = "hit", !.ts = data,
                                     !.touched = TRUE]
        /\ UNCHANGED <<now, ticks, serverVars, uiVars, storage, sweep>>

(* clearExpiredContent, called when the sidebar starts: read every entry   *)
(* and collect the expired summary_, quiz_ and chat_ keys.                 *)
SweepScan ==
    /\ sweep.pc \in {"idle", "done"}
    /\ LET keysToRemove ==
             {k \in CacheKeys :
                 /\ k[1] \in SweptTypes
                 /\ storage[k] > 0
                 /\ IsExpired(now, storage[k])}
       IN  sweep' = [pc |-> IF keysToRemove = {} THEN "done" ELSE "scanned",
                     at |-> now, keysToRemove |-> keysToRemove]
    /\ UNCHANGED <<now, ticks, serverVars, uiVars, storage, cacheOp>>

(* await chrome.storage.local.remove(keysToRemove)                         *)
SweepRemove ==
    /\ sweep.pc = "scanned"
    /\ storage' = [k \in CacheKeys |->
                      IF k \in sweep.keysToRemove THEN NoVal ELSE storage[k]]
    /\ sweep' = [sweep EXCEPT !.pc = "done"]
    /\ UNCHANGED <<now, ticks, serverVars, uiVars, cacheOp>>

NextCache ==
    \/ \E d \in CacheSteps : CacheTick(d)
    \/ \E url \in Urls, type \in CacheTypes : Save(url, type)
    \/ \E url \in Urls, type \in CacheTypes : Load(url, type)
    \/ LoadRemove
    \/ \E url \in Urls : ChatLoad(url)

SpecCache == InitCache /\ [][NextCache]_vars

(* The startup sweep running while the sidebar saves content and time      *)
(* passes.                                                                 *)
SweepTick(d) ==
    /\ ticks < MaxSweepTicks
    /\ now' = now + d
    /\ ticks' = ticks + 1
    /\ UNCHANGED <<serverVars, clientVars>>

NextSweep ==
    \/ \E d \in SweepSteps : SweepTick(d)
    \/ \E url \in Urls, type \in CacheTypes : Save(url, type)
    \/ SweepScan
    \/ SweepRemove

SpecSweep == InitCache /\ [][NextSweep]_vars

(* ------------------------------ quiz actions --------------------------- *)
InitQuiz ==
    /\ now = 0
    /\ ServerIdle
    /\ ClientIdle

(* A generated or cached quiz of n questions is put into the panel and     *)
(* initializeQuizNavigation runs.                                          *)
RenderQuiz(impl, n) ==
    /\ impl \in QuizImpls
    /\ n \in 1..MaxQuestions
    /\ quiz' = [IdleQuiz EXCEPT !.impl = impl, !.totalQuestions = n]
    /\ UNCHANGED <<now, ticks, serverVars, cacheVars, flash, callVars, panel,
                   widgetVars>>

(* navigateQuestions(direction).  sidebar.js dereferences                  *)
(* questions[currentQuestionIndex] without ?. and so throws when the index *)
(* is not a question's; the class version tolerates it.                    *)
Navigate(direction) ==
    /\ quiz.impl # "none"
    /\ direction \in {0 - 1, 1}
    /\ direction = 1 => quiz.nexts < MaxClicks
    /\ LET inRange(i) == i \in 0..(quiz.totalQuestions - 1)
           strict == quiz.impl = "sidebar"
           to == navigateQuestions(quiz.totalQuestions,
                                   quiz.currentQuestionIndex, direction)
       IN  IF strict /\ ~inRange(quiz.currentQuestionIndex)
           THEN quiz' = [quiz EXCEPT !.threw = TRUE]
           ELSE quiz' = [quiz EXCEPT
                           !.currentQuestionIndex = to,
                           !.nexts = IF direction = 1 THEN @ + 1 ELSE 0,
                           !.threw = @ \/ (strict /\ ~inRange(to))]
    /\ UNCHANGED <<now, ticks, serverVars, cacheVars, flash, callVars, panel,
                   widgetVars>>

(* The user checks a radio of question q.                                  *)
SelectAnswer(q, sel) ==
    /\ quiz.impl # "none"
    /\ q \in 1..quiz.totalQuestions
    /\ sel \in Selections \ {"none"}
    /\ quiz.selected[q] # sel
    /\ quiz' = [quiz EXCEPT !.selected[q] = sel]
    /\ UNCHANGED <<now, ticks, serverVars, cacheVars, flash, callVars, panel,
                   widgetVars>>

(* checkQuizAnswers: counts the questions whose checked value equals the   *)
(* correct answer and reports the result.                                  *)
SubmitQuiz ==
    /\ quiz.impl # "none"
    /\ LET questions == 1..quiz.totalQuestions
           correctAnswers ==
               Cardinality({q \in questions : quiz.selected[q] = "right"})
           answered ==
               Cardinality({q \in questions : quiz.selected[q] # "none"})
           tier == IF quiz.impl = "controller"
                   THEN showQuizResultsDialog(correctAnswers,
                                              quiz.totalQuestions)
                   ELSE resultClass(correctAnswers, quiz.totalQuestions)
       IN  quiz' = [quiz EXCEPT !.result =
                       [tier |-> tier, correct |-> correctAnswers,
                        total |-> quiz.totalQuestions,
                        answered |-> answered]]
    /\ UNCHANGED <<now, ticks, serverVars, cacheVars, flash, callVars, panel,
                   widgetVars>>

NextQuiz ==
    \/ \E impl \in QuizImpls, n \in 1..MaxQuestions : RenderQuiz(impl, n)
    \/ \E direction \in {0 - 1, 1} : Navigate(direction)
    \/ \E q \in 1..MaxQuestions, sel \in Selections : SelectAnswer(q, sel)
    \/ SubmitQuiz

SpecQuiz == InitQuiz /\ [][NextQuiz]_vars

(* ----------------------- flashcard post-processing --------------------- *)
(* The provider has answered a /flashcards request with some response.     *)
InitFlash ==
    /\ now = 0
    /\ ServerIdle
    /\ CacheIdle
    /\ quiz = IdleQuiz
    /\ CallsIdle
    /\ PanelIdle
    /\ WidgetsIdle
    /\ flash \in {[IdleFlash EXCEPT !.response = r] : r \in Responses}

(* The handler parses the response, filters and caps the cards.            *)
ParseFlashcards ==
    /\ flash.pc = "idle"
    /\ flash' = [flash EXCEPT !.pc = "done",
                              !.result = parseFlashcards(Text(flash.response))]
    /\ UNCHANGED <<now, ticks, serverVars, cacheVars, quiz, callVars, panel,
                   widgetVars>>

NextFlash == ParseFlashcards

SpecFlash == InitFlash /\ [][NextFlash]_vars

(* --------------------------- client calls ------------------------------ *)
(* A signed-up user whose counter is at or near the limit; the local       *)
(* mirror may lag behind or run ahead of the server's counter.             *)
InitClient ==
    /\ now = 0
    /\ ticks = 0
    /\ userExists = TRUE
    /\ subscription_status = "freemium"
    /\ enhancements_limit = DefaultLimit
    /\ enhancements_used \in (DefaultLimit - MaxSlots)..DefaultLimit
    /\ last_reset_at = 0
    /\ req = [p \in Procs |-> IdleReq]
    /\ auth = IdleAuth
    /\ CacheIdle
    /\ quiz = IdleQuiz
    /\ flash = IdleFlash
    /\ PanelIdle
    /\ WidgetsIdle
    /\ authToken \in Tokens
    /\ localUsed \in {0, DefaultLimit}
    /\ ui = IdleUi
    /\ gen = IdleGen

clientRest == <<now, ticks, serverVars, cacheVars, quiz, flash, panel,
               widgetVars>>

(* The user logs in: setAuthToken stores the token the server issued.      *)
LogIn ==
    /\ authToken = "none"
    /\ authToken' = "valid"
    /\ UNCHANGED <<clientRest, localUsed, ui, gen>>

(* The stored token passes its expiry on the server.                       *)
TokenExpires ==
    /\ authToken = "valid"
    /\ authToken' = "expired"
    /\ UNCHANGED <<clientRest, localUsed, ui, gen>>

(* UsageManager.checkUsageLimit: GET /api/user/usage when a token is       *)
(* stored; the server's counters decide when the response is ok, otherwise *)
(* the local mirror does.                                                  *)
CheckUsageLimit(reply) ==
    /\ reply \in Replies
    /\ LET status == StatusOf(authToken, reply)
           fromServer == authToken # "none" /\ Ok(status)
       IN  ui' = [ui EXCEPT !.check =
                    IF fromServer
                    THEN [by |-> "checkUsageLimit", serverOk |-> TRUE,
                          from |-> "server",
                          limitReached |->
                              enhancements_used >= enhancements_limit]
                    ELSE [by |-> "checkUsageLimit", serverOk |-> FALSE,
                          from |-> "local",
                          limitReached |-> localUsed >= DefaultLimit]]
    /\ UNCHANGED <<clientRest, authToken, localUsed, gen>>

(* The summarize button of sidebar.js: UsageTracker.isLimitReached()       *)
(* decides; the server is not asked.  reply is what a usage check would    *)
(* have been answered.                                                     *)
SummarizeClick(reply) ==
    /\ reply \in Replies
    /\ ui' = [ui EXCEPT !.check =
                 [by |-> "sidebar",
                  serverOk |-> authToken = "valid" /\ reply = 200,
                  from |-> "local",
                  limitReached |-> localUsed >= DefaultLimit]]
    /\ UNCHANGED <<clientRest, authToken, localUsed, gen>>

(* UsageManager.updateStatusCards: the counters shown come from            *)
(* GET /api/user/usage when it answers ok, else from the local mirror.     *)
UpdateStatusCards(reply) ==
    /\ reply \in Replies
    /\ LET status == StatusOf(authToken, reply)
           fromServer == authToken # "none" /\ Ok(status)
       IN  ui' = [ui EXCEPT !.cards =
                    IF fromServer
                    THEN [by |-> "updateStatusCards", serverOk |-> TRUE,
                          from |-> "server",
                          enhancementsUsed |-> OrDefault(enhancements_used, 0),
                          enhancementsLimit |->
                              OrDefault(enhancements_limit, DefaultLimit)]
                    ELSE [by |-> "updateStatusCards", serverOk |-> FALSE,
                          from |-> "local",
                          enhancementsUsed |-> localUsed,
                          enhancementsLimit |-> DefaultLimit]]
    /\ UNCHANGED <<clientRest, authToken, localUsed, gen>>

(* updateStatusCards of sidebar.js: the counters of the local mirror.      *)
SidebarStatusCards(reply) ==
    /\ reply \in Replies
    /\ ui' = [ui EXCEPT !.cards =
                 [by |-> "sidebar",
                  serverOk |-> authToken = "valid" /\ reply = 200,
                  from |-> "local",
                  enhancementsUsed |-> localUsed,
                  enhancementsLimit |-> DefaultLimit]]
    /\ UNCHANGED <<clientRest, authToken, localUsed, gen>>

(* FileManager.processUploadedFile: POST /api/process-file with the stored *)
(* token; any response that is not ok is thrown as an error.               *)
ProcessUploadedFile(reply) ==
    /\ reply \in Replies
    /\ ui' = [ui EXCEPT !.file =
                 IF Ok(StatusOf(authToken, reply)) THEN "result" ELSE "error"]
    /\ UNCHANGED <<clientRest, authToken, localUsed, gen>>

(* getUserUsage of the login menu: a 401 clears the token.                 *)
GetUserUsage(reply) ==
    /\ reply \in Replies
    /\ authToken # "none"
    /\ authToken' = TokenAfter(authToken, StatusOf(authToken, reply))
    /\ UNCHANGED <<clientRest, localUsed, ui, gen>>

(* The sidebar sends a generation message (a click on generate or on       *)
(* regenerate); the background handler starts.                             *)
UserGenerate(action, hasSummary) ==
    /\ action \in GenActions
    /\ gen.pc \in {"idle", "done"}
    /\ gen' = [IdleGen EXCEPT
                 !.action = action,
                 !.usedBefore = enhancements_used,
                 !.pc = IF action = "generate-quiz" /\ ~hasSummary
                        THEN "summarize" ELSE EndpointOf(action)]
    /\ UNCHANGED <<clientRest, authToken, localUsed, ui>>

(* One callBackendAPI of the handler: without a token it throws before any *)
(* fetch; otherwise one fetch, whose server handler calls the provider at  *)
(* most once (callOpenAI is a single fetch), a 401 clears the token, and   *)
(* the handler goes on or answers the sidebar.                             *)
CallBackendAPI(reply, provider) ==
    /\ reply \in Replies
    /\ provider \in BOOLEAN
    /\ gen.pc \in GenEndpoints
    /\ LET endpoint == gen.pc
           fetched == authToken # "none"
           status == StatusOf(authToken, reply)
           failed == ~fetched \/ ~Ok(status)
           called == fetched /\ (Ok(status) \/ (status = 500 /\ provider))
           to == AfterCall(gen.action, endpoint, failed)
       IN  /\ gen' = [gen EXCEPT
                        !.pc = to,
                        !.backend[endpoint] = @ + (IF fetched THEN 1 ELSE 0),
                        !.provider[endpoint] = @ + (IF called THEN 1 ELSE 0),
                        !.outcome = IF to # "done" THEN @
                                    ELSE IF failed THEN "error" ELSE "ok"]
           /\ authToken' = IF fetched THEN TokenAfter(authToken, status)
                           ELSE authToken
    /\ UNCHANGED <<clientRest, localUsed, ui>>

NextClient ==
    \/ LogIn
    \/ TokenExpires
    \/ \E reply \in Replies : CheckUsageLimit(reply)
    \/ \E reply \in Replies : SummarizeClick(reply)
    \/ \E reply \in Replies : UpdateStatusCards(reply)
    \/ \E reply \in Replies : SidebarStatusCards(reply)
    \/ \E reply \in Replies : ProcessUploadedFile(reply)
    \/ \E reply \in Replies : GetUserUsage(reply)
    \/ \E action \in GenActions, hasSummary \in BOOLEAN :
          UserGenerate(action, hasSummary)
    \/ \E reply \in Replies, provider \in BOOLEAN :
          CallBackendAPI(reply, provider)

SpecClient == InitClient /\ [][NextClient]_vars

(* ------------------------- generation panels --------------------------- *)
(* One video is open; its summary and quiz may be cached; nothing runs.    *)
InitPanel ==
    /\ now = DAY
    /\ ServerIdle
    /\ cacheOp = IdleOp
    /\ sweep = IdleSweep
    /\ quiz = IdleQuiz
    /\ flash = IdleFlash
    /\ CallsIdle
    /\ PanelIdle
    /\ WidgetsIdle
    /\ \E cached \in SUBSET PanelKinds :
          storage = [k \in CacheKeys |->
                       IF \E t \in cached : k = PanelKey(t) THEN now
                       ELSE NoVal]

panelRest == <<now, ticks, serverVars, cacheOp, sweep, quiz, flash, callVars,
              widgetVars>>

NoHandlerRunning == panel.pc # "awaiting"

(* The handler ended without sending a generation message.                 *)
Ended(p, outcome) == [p EXCEPT !.pc = "done", !.outcome = outcome]

(* showLoadingIndicator(container), then the generation message is sent.   *)
Sent(p) == [p EXCEPT !.pc = "awaiting", !.outcome = "none",
                     !.spinner[p.kind] = TRUE]

(* The body of generateSummary / summarizeText up to its first await on    *)
(* the generation message: the long-video refusal, the cache hit, or the   *)
(* spinner and the message.                                                *)
SummaryBody(p) ==
    IF LongVideo(p.duration)
    THEN [Ended(p, "premiumRequired") EXCEPT
            !.spinner = [k \in PanelKinds |->
                           IF k = "summary" \/ p.impl = "sidebar" THEN FALSE
                           ELSE p.spinner[k]]]
    ELSE IF ~p.force /\ storage[PanelKey("summary")] # NoVal
    THEN [Ended(p, "cached") EXCEPT !.spinner["summary"] = FALSE]
    ELSE Sent(p)

(* A handler starts: the fields every handler sets.                        *)
Started(impl, kind, force) ==
    [panel EXCEPT !.impl = impl, !.kind = kind, !.force = force,
                  !.hadCache = storage[PanelKey(kind)] # NoVal]

(* generateSummary(text, forceRegenerate, ...) of ContentGenerator, and    *)
(* summarizeText(text, false) of sidebar.js, for a caller that is premium  *)
(* or not and a video of the given duration.                               *)
GenerateSummary(impl, force, premium, duration) ==
    /\ NoHandlerRunning
    /\ impl = "sidebar" => ~force
    /\ panel' = SummaryBody([Started(impl, "summary", force) EXCEPT
                               !.premium = premium, !.duration = duration])
    /\ UNCHANGED <<panelRest, storage>>

(* The regenerate-summary button of sidebar.js: the limit check, the       *)
(* removal of the video's cached artifacts, the increment, and then        *)
(* summarizeText(transcript, true).                                        *)
RegenerateSummaryClick(limitReached, incOk, premium, duration) ==
    LET p == [Started("sidebar", "summary", TRUE) EXCEPT
                !.premium = premium, !.duration = duration]
    IN  /\ NoHandlerRunning
        /\ IF limitReached
           THEN panel' = Ended(p, "refused") /\ UNCHANGED storage
           ELSE /\ storage' = [k \in CacheKeys |->
                                 IF k \in ClearedOnRegenerate("sidebar",
                                                              "summary")
                                 THEN NoVal ELSE storage[k]]
                /\ panel' = IF incOk THEN SummaryBody(p)
                            ELSE Ended(p, "refused")
        /\ UNCHANGED panelRest

(* handleGenerateQuiz(forceRegenerate) of QuizUIController.                *)
HandleGenerateQuiz(force, limitReached) ==
    LET p == Started("controller", "quiz", force)
    IN  /\ NoHandlerRunning
        /\ panel' = IF limitReached THEN Ended(p, "refused")
                    ELSE IF ~force /\ storage[PanelKey("quiz")] # NoVal
                    THEN [Ended(p, "cached") EXCEPT !.spinner["quiz"] = TRUE]
                    ELSE Sent(p)
        /\ UNCHANGED <<panelRest, storage>>

(* The regenerate-quiz button of sidebar.js, with the context bar (a quiz  *)
(* is shown) or without it.                                                *)
RegenerateQuizClick(limitReached, incOk, shown) ==
    LET p == Started("sidebar", "quiz", TRUE)
        cleared == [k \in CacheKeys |->
                      IF k \in ClearedOnRegenerate("sidebar", "quiz")
                      THEN NoVal ELSE storage[k]]
    IN  /\ NoHandlerRunning
        /\ IF limitReached
           THEN panel' = Ended(p, "refused") /\ UNCHANGED storage
           ELSE IF incOk
           THEN panel' = Sent(p) /\ storage' = cleared
           ELSE /\ panel' = [Ended(p, "refused") EXCEPT
                               !.spinner["quiz"] = FALSE]
                /\ storage' = IF shown THEN cleared ELSE storage
        /\ UNCHANGED panelRest

(* The generation message resolves with the artifact, resolves with an     *)
(* error, or rejects; the handler runs to its end.                         *)
Resolve(result) ==
    /\ panel.pc = "awaiting"
    /\ IF result = "ok"
       THEN /\ panel' = [Ended(panel, "generated") EXCEPT
                           !.spinner[panel.kind] = FALSE]
            /\ storage' = [storage EXCEPT ![PanelKey(panel.kind)] = now]
       ELSE /\ panel' = [Ended(panel, "failed") EXCEPT
                           !.spinner[panel.kind] =
                              IF BadgeOnFailure(panel.impl, panel.kind)
                              THEN FALSE ELSE panel.spinner[panel.kind]]
            /\ UNCHANGED storage
    /\ UNCHANGED panelRest

NextPanel ==
    \/ \E impl \in PanelImpls, force \in BOOLEAN, premium \in BOOLEAN,
          duration \in Durations :
          GenerateSummary(impl, force, premium, duration)
    \/ \E limitReached \in BOOLEAN, incOk \in BOOLEAN, premium \in BOOLEAN,
          duration \in Durations :
          RegenerateSummaryClick(limitReached, incOk, premium, duration)
    \/ \E force \in BOOLEAN, limitReached \in BOOLEAN :
          HandleGenerateQuiz(force, limitReached)
    \/ \E limitReached \in BOOLEAN, incOk \in BOOLEAN, shown \in BOOLEAN :
          RegenerateQuizClick(limitReached, incOk, shown)
    \/ \E result \in MessageResults : Resolve(result)

SpecPanel == InitPanel /\ [][NextPanel]_vars

(* ------------------ the extension against the backend ------------------ *)
(* A logged-in user, freemium or premium, at or near the daily limit; no   *)
(* request in flight.                                                      *)
InitE2E ==
    /\ now = 0
    /\ ticks = 0
    /\ userExists = TRUE
    /\ subscription_status \in {"freemium", "premium"}
    /\ enhancements_limit = DefaultLimit
    /\ enhancements_used \in (DefaultLimit - MaxSlots)..DefaultLimit
    /\ last_reset_at = 0
    /\ req = [p \in Procs |-> IdleReq]
    /\ auth = IdleAuth
    /\ CacheIdle
    /\ quiz = IdleQuiz
    /\ flash = IdleFlash
    /\ PanelIdle
    /\ WidgetsIdle
    /\ authToken = "valid"
    /\ localUsed = 0
    /\ ui = IdleUi
    /\ gen = IdleGen

(* callBackendAPI: the fetch of the handler's current endpoint reaches the *)
(* route handler of the backend.                                           *)
Fetch(body) ==
    /\ gen.pc \in GenEndpoints
    /\ req[1].pc = "idle"
    /\ body \in Bodies
    /\ req' = [req EXCEPT ![1] = Arrived(gen.pc, body)]
    /\ gen' = [gen EXCEPT !.backend[gen.pc] = @ + 1]
    /\ UNCHANGED <<now, ticks, userRow, auth, cacheVars, quiz, flash, panel,
                   widgetVars,
                   authToken, localUsed, ui>>

(* The response arrives: callBackendAPI returns or throws, and the handler *)
(* goes on to its next call or answers the sidebar.                        *)
Receive ==
    /\ gen.pc \in GenEndpoints
    /\ req[1].pc = "done"
    /\ LET failed == ~Ok(req[1].status)
           to == AfterCall(gen.action, gen.pc, failed)
       IN  gen' = [gen EXCEPT
                     !.pc = to,
                     !.provider[gen.pc] =
                        @ + (IF req[1].provider THEN 1 ELSE 0),
                     !.outcome = IF to # "done" THEN @
                                 ELSE IF failed THEN "error" ELSE "ok"]
    /\ req' = [req EXCEPT ![1] = IdleReq]
    /\ UNCHANGED <<now, ticks, userRow, auth, cacheVars, quiz, flash, panel,
                   widgetVars,
                   authToken, localUsed, ui>>

NextE2E ==
    \/ \E action \in GenActions, hasSummary \in BOOLEAN :
          UserGenerate(action, hasSummary)
    \/ \E body \in Bodies : Fetch(body)
    \/ Reset(1)
    \/ SelectAndCheck(1)
    \/ Increment(1)
    \/ ProviderOk(1)
    \/ ProviderFail(1)
    \/ ReadUsage(1)
    \/ Receive

SpecE2E == InitE2E /\ [][NextE2E]_vars

(* ------------------------- password reset ------------------------------ *)
InitAuth ==
    /\ now = 0
    /\ ServerIdle
    /\ ClientIdle

authRest == <<userRow, req, clientVars>>

AuthTick(d) ==
    /\ ticks < MaxTicks
    /\ now' = now + d
    /\ ticks' = ticks + 1
    /\ UNCHANGED <<authRest, auth>>

(* POST /forgot-password with an address of valid format: the lookup, the  *)
(* fresh token stored with its expiry, and the response.                   *)
ForgotPassword(email) ==
    /\ email \in ValidEmails
    /\ auth.issued < MaxTokens
    /\ LET resetToken == auth.issued + 1
       IN  auth' =
             IF ~Registered(email)
             THEN [auth EXCEPT !.forgot[email] = UnknownEmailBody]
             ELSE [auth EXCEPT
                     !.issued = resetToken,
                     !.password_reset_token = resetToken,
                     !.password_reset_expires = now + HOUR,
                     !.forgot[email] =
                        [status |-> 200,
                         message |-> "Password reset requested",
                         token |-> resetToken]]
    /\ UNCHANGED <<now, ticks, authRest>>

(* res.status(code).json(...): the request is over.                        *)
Answer(code) == [IdleReset EXCEPT !.pc = "done", !.status = code]

(* POST /reset-password arrives: the validation of the body, then the      *)
(* SELECT is awaited.                                                      *)
ResetStart(p, email, token, newPassword) ==
    /\ auth.reset[p].pc \in {"idle", "done"}
    /\ email \in {""} \cup ValidEmails
    /\ LET r == [IdleReset EXCEPT !.email = email, !.token = token,
                                  !.newPassword = newPassword]
       IN  auth' = [auth EXCEPT !.reset[p] =
             IF email = "" \/ token = NoToken \/ newPassword = ""
                \/ TooShort(newPassword)
             THEN Answer(400)
             ELSE [r EXCEPT !.pc = "select"]]
    /\ UNCHANGED <<now, ticks, authRest>>

(* The SELECT returns: 404 without a row, 401 when the stored token is     *)
(* NULL, differs or has expired; otherwise hashPassword is awaited.        *)
ResetSelect(p) ==
    /\ auth.reset[p].pc = "select"
    /\ LET r == auth.reset[p]
       IN  auth' = [auth EXCEPT !.reset[p] =
             IF ~Registered(r.email)
             THEN Answer(404)
             ELSE IF auth.password_reset_token = NoToken
                     \/ auth.password_reset_token # r.token
             THEN Answer(401)
             ELSE IF auth.password_reset_expires < now
             THEN Answer(401)
             ELSE [r EXCEPT !.pc = "hash"]]
    /\ UNCHANGED <<now, ticks, authRest>>

(* hashPassword resolves; the UPDATE is awaited.                           *)
ResetHash(p) ==
    /\ auth.reset[p].pc = "hash"
    /\ auth' = [auth EXCEPT !.reset[p].pc = "update"]
    /\ UNCHANGED <<now, ticks, authRest>>

(* UPDATE users SET password_hash = $1, password_reset_token = NULL,       *)
(* password_reset_expires = NULL WHERE id = $2, and the 200.               *)
ResetUpdate(p) ==
    /\ auth.reset[p].pc = "update"
    /\ LET r == auth.reset[p]
       IN  auth' = [auth EXCEPT
                     !.password_hash = r.newPassword,
                     !.password_reset_token = NoToken,
                     !.password_reset_expires = 0,
                     !.changes[r.token] = @ + 1,
                     !.reset[p] = Answer(200)]
    /\ UNCHANGED <<now, ticks, authRest>>

NextAuth ==
    \/ \E d \in AuthSteps : AuthTick(d)
    \/ \E email \in ValidEmails : ForgotPassword(email)
    \/ \E p \in Procs, email \in {""} \cup ValidEmails, token \in TokenInputs,
          newPassword \in PasswordInputs :
          ResetStart(p, email, token, newPassword)
    \/ \E p \in Procs : ResetSelect(p)
    \/ \E p \in Procs : ResetHash(p)
    \/ \E p \in Procs : ResetUpdate(p)

SpecAuth == InitAuth /\ [][NextAuth]_vars

(* ---------------------- sendMessageWithTimeout ------------------------- *)
InitMsg ==
    /\ now = 0
    /\ ServerIdle
    /\ ClientIdle

msgRest == <<now, ticks, serverVars, cacheVars, quiz, flash, callVars, panel,
             upload, tabs, deck>>

(* sendMessageWithTimeout(message, maxRetries) is called: the promise is   *)
(* created and attemptSend runs.                                           *)
SendMessageWithTimeout(message, arg, runtime, throws) ==
    /\ msg.pc \in {"idle", "resolved"}
    /\ arg \in RetryArgs
    /\ msg' = attemptSend([IdleMsg EXCEPT
                             !.message = message,
                             !.maxRetries = IF arg = NoVal
                                            THEN DefaultMaxRetries ELSE arg],
                          runtime, throws)
    /\ UNCHANGED msgRest

(* The callback of chrome.tabs.query.                                      *)
QueryCallback(outcome) ==
    /\ msg.pc = "query"
    /\ msg' = CASE outcome = "lastError" -> handleRetry(msg)
                [] outcome = "noTab" ->
                     [msg EXCEPT !.pc = "resolved", !.result = "error"]
                [] OTHER -> [msg EXCEPT !.pc = "send"]
    /\ UNCHANGED msgRest

(* The callback of chrome.tabs.sendMessage.                                *)
SendCallback(outcome) ==
    /\ msg.pc = "send"
    /\ msg' = CASE outcome = "lastError" -> handleRetry(msg)
                [] outcome = "response" ->
                     [msg EXCEPT !.pc = "resolved", !.result = "response"]
                [] OTHER ->
                     [msg EXCEPT !.pc = "resolved", !.result = "success"]
    /\ UNCHANGED msgRest

(* The backoff timer fires and attemptSend runs again.                     *)
TimerFires(runtime, throws) ==
    /\ msg.pc = "timer"
    /\ msg' = attemptSend(msg, runtime, throws)
    /\ UNCHANGED msgRest

Callbacks ==
    \/ \E outcome \in QueryOutcomes : QueryCallback(outcome)
    \/ \E outcome \in SendOutcomes : SendCallback(outcome)
    \/ \E runtime \in BOOLEAN, throws \in BOOLEAN : TimerFires(runtime, throws)

NextMsg ==
    \/ \E message \in Messages, arg \in RetryArgs, runtime \in BOOLEAN,
          throws \in BOOLEAN :
          SendMessageWithTimeout(message, arg, runtime, throws)
    \/ \E outcome \in QueryOutcomes : QueryCallback(outcome)
    \/ \E outcome \in SendOutcomes : SendCallback(outcome)
    \/ \E runtime \in BOOLEAN, throws \in BOOLEAN : TimerFires(runtime, throws)

(* Chrome invokes every pending callback and fires every pending timer.    *)
SpecMsg == InitMsg /\ [][NextMsg]_vars /\ WF_vars(Callbacks)

(* --------------------------- upload gate ------------------------------- *)
InitUpload ==
    /\ now = DAY
    /\ ServerIdle
    /\ CacheIdle
    /\ quiz = IdleQuiz
    /\ flash = IdleFlash
    /\ CallsIdle
    /\ PanelIdle
    /\ msg = IdleMsg
    /\ tabs = IdleTabs
    /\ deck = IdleDeck
    /\ \E premium \in BOOLEAN : upload = [IdleUpload EXCEPT !.premium = premium]

uploadRest == <<serverVars, cacheVars, quiz, flash, callVars, panel, msg, tabs,
                deck>>

UploadTick(d) ==
    /\ ticks < MaxUploadTicks
    /\ now' = now + d
    /\ ticks' = ticks + 1
    /\ UNCHANGED <<uploadRest, upload>>

(* handleFileUpload(file) or showScreenshotPreview(imageData) is called    *)
(* and awaits checkUploadLimit.                                            *)
StartUpload(p, kind) ==
    /\ upload.slot[p].pc \in {"idle", "done", "refused"}
    /\ Len(upload.accepted) < MaxUploads
    /\ upload' = [upload EXCEPT !.slot[p] = [pc |-> "check", kind |-> kind]]
    /\ UNCHANGED <<now, ticks, uploadRest>>

(* checkUploadLimit returns on the premium status and the timestamp it     *)
(* read: the upgrade dialog, or the upload goes on (a file is processed,   *)
(* a screenshot is stored).                                                *)
CheckUploadLimit(p) ==
    /\ upload.slot[p].pc = "check"
    /\ LET allowed == upload.premium
                        \/ UploadAllowed(now, upload.lastFileUploadTimestamp)
       IN  upload' = [upload EXCEPT !.slot[p].pc =
                        IF ~allowed THEN "refused"
                        ELSE IF upload.slot[p].kind = "file" THEN "processing"
                        ELSE "store"]
    /\ UNCHANGED <<now, ticks, uploadRest>>

(* await this.processUploadedFile(file) resolves or throws.                *)
FileProcessed(p, ok) ==
    /\ upload.slot[p].pc = "processing"
    /\ upload' = [upload EXCEPT !.slot[p].pc = IF ok THEN "store" ELSE "done"]
    /\ UNCHANGED <<now, ticks, uploadRest>>

(* chrome.storage.local.set({lastFileUploadTimestamp: Date.now(), ...}):   *)
(* the upload is accepted.                                                 *)
StoreUpload(p) ==
    /\ upload.slot[p].pc = "store"
    /\ upload' = [upload EXCEPT !.slot[p].pc = "done",
                                !.lastFileUploadTimestamp = now,
                                !.accepted = Append(@, now)]
    /\ UNCHANGED <<now, ticks, uploadRest>>

NextUpload ==
    \/ \E d \in UploadSteps : UploadTick(d)
    \/ \E p \in Procs, kind \in UploadKinds : StartUpload(p, kind)
    \/ \E p \in Procs : CheckUploadLimit(p)
    \/ \E p \in Procs, ok \in BOOLEAN : FileProcessed(p, ok)
    \/ \E p \in Procs : StoreUpload(p)

SpecUpload == InitUpload /\ [][NextUpload]_vars

(* ------------------------------ tab bar -------------------------------- *)
InitTabs ==
    /\ now = 0
    /\ ServerIdle
    /\ ClientIdle

tabsRest == <<now, ticks, serverVars, cacheVars, quiz, flash, callVars, panel,
              msg, upload, deck>>

(* switchTab(tabName) up to its await: activeTab, the buttons and the tab  *)
(* contents are updated; a rendered tab is made transparent and its render *)
(* is awaited.                                                             *)
SwitchTab(tabName) ==
    /\ tabName \in RenderedTabs => tabs.pending[tabName] < MaxPending
    /\ tabs' = [tabs EXCEPT
                  !.activeTab = tabName,
                  !.buttons = {tabName},
                  !.active = ActiveAfter(tabs.active, tabName),
                  !.transparent = IF tabName \in RenderedTabs
                                  THEN @ \cup {tabName} ELSE @,
                  !.pending = IF tabName \in RenderedTabs
                              THEN [@ EXCEPT ![tabName] = @ + 1] ELSE @]
    /\ UNCHANGED tabsRest

(* The render awaited by an earlier switchTab(tabName) resolves: the rest  *)
(* of that call removes the opacity of its own tab content.                *)
RenderResolves(tabName) ==
    /\ tabName \in RenderedTabs
    /\ tabs.pending[tabName] > 0
    /\ tabs' = [tabs EXCEPT !.pending[tabName] = @ - 1,
                            !.transparent = @ \ {tabName},
                            !.rendered = tabName]
    /\ UNCHANGED tabsRest

NextTabs ==
    \/ \E tabName \in TabNames : SwitchTab(tabName)
    \/ \E tabName \in RenderedTabs : RenderResolves(tabName)

SpecTabs == InitTabs /\ [][NextTabs]_vars

(* ------------------------ flashcard slideshow -------------------------- *)
InitDeck ==
    /\ now = 0
    /\ ServerIdle
    /\ ClientIdle

deckRest == <<now, ticks, serverVars, cacheVars, quiz, flash, callVars, panel,
              msg, upload, tabs>>

(* renderFlashcards finds no set and clears the list, or takes the first   *)
(* relevant set and schedules the slideshow render; the index is reset.    *)
RenderFlashcards(count) ==
    /\ count \in DeckSizes
    /\ deck' = IF count = NoVal
               THEN [deck EXCEPT !.count = NoVal, !.index = 0,
                                 !.shownLen = 0, !.shownIndex = NoVal,
                                 !.flipped = FALSE, !.last = "set"]
               ELSE [deck EXCEPT !.count = count, !.index = 0,
                                 !.pending = TRUE, !.last = "set"]
    /\ UNCHANGED deckRest

(* setTimeout(() => this.renderFlashcardSlideshow(), 0) fires.             *)
SlideshowTimer ==
    /\ deck.pending
    /\ deck' = [renderFlashcardSlideshow(deck) EXCEPT !.pending = FALSE,
                                                      !.last = "timer"]
    /\ UNCHANGED deckRest

(* A click on the card on screen: the first flips it, the second goes to   *)
(* the next card, wrapping after the last, and renders.                    *)
CardClick ==
    /\ deck.shownIndex # NoVal
    /\ deck' =
         IF ~deck.flipped THEN [deck EXCEPT !.flipped = TRUE, !.last = "flip"]
         ELSE LET next == deck.index + 1
                  d == [deck EXCEPT !.index = IF next >= deck.shownLen THEN 0
                                              ELSE next,
                                    !.last = "card"]
              IN  renderFlashcardSlideshow(d)
    /\ UNCHANGED deckRest

(* A click on the previous button, which is rendered disabled at index 0.  *)
PrevClick ==
    /\ deck.shownIndex # NoVal
    /\ deck.shownIndex # 0
    /\ deck' = IF deck.index > 0
               THEN renderFlashcardSlideshow(
                       [deck EXCEPT !.index = @ - 1, !.last = "prev"])
               ELSE [deck EXCEPT !.last = "prev"]
    /\ UNCHANGED deckRest

(* A click on the next button, which is rendered disabled on the last card.*)
NextClick ==
    /\ deck.shownIndex # NoVal
    /\ deck.shownIndex # deck.shownLen - 1
    /\ deck' = IF deck.index < deck.shownLen - 1
               THEN renderFlashcardSlideshow(
                       [deck EXCEPT !.index = @ + 1, !.last = "next"])
               ELSE [deck EXCEPT !.last = "next"]
    /\ UNCHANGED deckRest

NextDeck ==
    \/ \E count \in DeckSizes : RenderFlashcards(count)
    \/ SlideshowTimer
    \/ CardClick
    \/ PrevClick
    \/ NextClick

SpecDeck == InitDeck /\ [][NextDeck]_vars

(* ============================ properties =============================== *)
Freemium == userExists /\ subscription_status = "freemium"

Premium == userExists /\ subscription_status = "premium"

(* Request p leaves the await named a in this step.                        *)
Leaves(p, a) == req[p].pc = a /\ req'[p].pc # a

(* Request p is answered in this step.                                     *)
Answered(p) == req[p].pc # "done" /\ req'[p].pc = "done"

(* C1: for a freemium user, of the requests that passed the limit check    *)
(* while one slot was left, the one whose increment runs first takes the   *)
(* slot and the ones whose increment runs at the limit are answered 403    *)
(* (QuotaExceeded) without incrementing; the counter never reaches         *)
(* enhancementsLimit + 1.                                                  *)
C1_OneSlotRace ==
    [][\A p \in Procs : (Freemium /\ Leaves(p, "increment")) =>
          /\ enhancements_used' <= enhancements_limit
          /\ IF enhancements_used < enhancements_limit
             THEN /\ enhancements_used' = enhancements_used + 1
                  /\ req'[p].incs = 1
                  /\ req'[p].status # 403
             ELSE /\ enhancements_used' = enhancements_used
                  /\ req'[p].incs = 0
                  /\ req'[p].status = 403]_vars

(* Both requests passed the check; one took the last slot, the other was   *)
(* answered QuotaExceeded by the increment.                                *)
C1_Witness ==
    /\ Freemium
    /\ enhancements_used = enhancements_limit
    /\ \E p, q \in Procs :
          /\ p # q
          /\ req[p].incs = 1 /\ req[p].status # 403
          /\ req[q].status = 403 /\ req[q].via = "increment" /\ req[q].incs = 0

(* C2: for a freemium user the counter never exceeds the limit, over any   *)
(* interleaving of generation requests and daily resets.                   *)
C2_UsedWithinLimit ==
    Freemium => enhancements_used <= enhancements_limit

C2_Witness ==
    /\ Freemium
    /\ enhancements_used = enhancements_limit
    /\ \A p \in Procs : req[p].incs = 1

(* C3: with requests handled one after another, a request that finds the   *)
(* counter under the limit passes the check and its increment succeeds,    *)
(* adding exactly one and never passing the limit; a request that finds    *)
(* the counter at the limit is answered 403 and leaves it unchanged.       *)
C3_QuotaMonotonic ==
    [][\A p \in Procs :
          /\ (userExists /\ Leaves(p, "select")) =>
                IF enhancements_used < enhancements_limit
                THEN req'[p].pc = "increment"
                ELSE /\ req'[p].status = 403
                     /\ req'[p].incs = 0
                     /\ enhancements_used' = enhancements_used
          /\ Leaves(p, "increment") =>
                /\ enhancements_used' = enhancements_used + 1
                /\ enhancements_used' <= enhancements_limit
                /\ req'[p].incs = 1
                /\ req'[p].status # 403]_vars

(* The call that used the last slot succeeded and left the counter at the  *)
(* limit; the next call was refused with the counter unchanged.            *)
C3_Witness ==
    /\ userExists
    /\ enhancements_used = enhancements_limit
    /\ \E p, q \in Procs :
          /\ req[p].status = 200 /\ req[p].incs = 1
          /\ req[p].respUsed = enhancements_limit
          /\ req[q].status = 403 /\ req[q].via = "check"
          /\ req[q].respUsed = enhancements_limit

(* C4: a request of a premium user is never refused with 403, whatever     *)
(* the counter (the limit check is bypassed).                              *)
C4_PremiumBypass ==
    Premium => \A p \in Procs : req[p].status # 403

(* C5: the reset check sets the counter to 0 and the reset stamp to now    *)
(* exactly when at least 24 hours have passed since the last reset, and    *)
(* changes nothing otherwise; the limit check that follows refuses the     *)
(* request when the counter it reads is still at the limit and lets it on  *)
(* to the increment when the counter is under it.                          *)
C5_ResetBoundary ==
    [][\A p \in Procs :
          /\ (userExists /\ Leaves(p, "reset")) =>
                IF now - last_reset_at >= DAY
                THEN enhancements_used' = 0 /\ last_reset_at' = now
                ELSE UNCHANGED <<enhancements_used, last_reset_at>>
          /\ (userExists /\ Leaves(p, "select")) =>
                IF enhancements_used >= enhancements_limit
                THEN req'[p].status = 403 /\ req'[p].incs = 0
                ELSE req'[p].pc = "increment"]_vars

(* The last reset was 24h + 1s ago: the counter was reset and the request  *)
(* incremented it to 1.                                                    *)
C5_Witness ==
    /\ userExists
    /\ now = DAY + SECOND
    /\ last_reset_at = now
    /\ enhancements_used = 1
    /\ \E p \in Procs : req[p].incs = 1 /\ req[p].didReset

(* C6: in a generation request the reset check has completed before the    *)
(* counter is read for the limit decision and before the increment.        *)
C6_ResetBeforeCheck ==
    \A p \in Procs :
        (/\ req[p].route = "gated"
         /\ \/ req[p].pc \in {"select", "increment", "provider", "usage"}
            \/ req[p].incs > 0
            \/ req[p].status \in {403, 404, 200, 500})
        => req[p].didReset

C6_Witness ==
    \E p \in Procs :
        req[p].route = "gated" /\ req[p].pc = "increment" /\ req[p].didReset

C8_ValidationNoSideEffect ==
    \A p \in Procs : req[p].status = 400 => req[p].incs = 0

(* C9: the provider is called only in a request that passed the quota      *)
(* gate (reset, limit check, increment).                                   *)
C9_ProviderOnlyAfterGate ==
    \A p \in Procs :
        (req[p].pc = "provider" \/ req[p].provider)
        => (req[p].didReset /\ req[p].incs = 1)

CacheOpDecided(o) ==
    cacheOp.pc = "idle" /\ cacheOp' # cacheOp /\ cacheOp'.op = o

(* C11: loadGeneratedContent returns an entry written at T when it is read *)
(* at T + 23h59m, leaving it stored, and treats it as absent at            *)
(* T + 24h01m: the read does not hit and its result is null.               *)
C11_CacheTTL ==
    [][/\ CacheOpDecided("load") /\ ~Falsy(cacheOp'.id) =>
            LET T == storage[<<cacheOp'.type, cacheOp'.id>>]
            IN  T # NoVal =>
                  /\ now - T = DAY - MINUTE =>
                        /\ cacheOp'.result = "hit"
                        /\ storage' = storage
                  /\ now - T = DAY + MINUTE =>
                        /\ cacheOp'.result # "hit"
                        /\ cacheOp'.pc = "removing"
       /\ (cacheOp.pc = "removing" /\ cacheOp'.pc # "removing") =>
            cacheOp'.result = "absent"]_vars

(* An entry read 24h01m after it was written was treated as absent.        *)
C11_Witness ==
    /\ cacheOp.op = "load" /\ cacheOp.pc = "idle"
    /\ cacheOp.result = "absent"
    /\ cacheOp.ts # NoVal
    /\ cacheOp.at - cacheOp.ts = DAY + MINUTE

(* C12: no read path returns or displays an entry older than 24 hours.     *)
C12_NoExpiredRead ==
    cacheOp.result = "hit" => cacheOp.at - cacheOp.ts <= CACHE_EXPIRY_TIME

(* C13: nothing is stored under a null or empty content identity, and a    *)
(* save or load with such an identity leaves storage as it is, without     *)
(* reading or writing it: the save is skipped and the load is absent.      *)
C13_NullIdentityNotCached ==
    /\ [](\A k \in CacheKeys : Falsy(k[2]) => storage[k] = NoVal)
    /\ [][\A o \in {"save", "load", "chatLoad"} :
             (CacheOpDecided(o) /\ cacheOp'.id \in {NullId, ""}) =>
                /\ storage' = storage
                /\ ~cacheOp'.touched
                /\ cacheOp'.result \in {"skipped", "absent"}]_vars

C13_Witness ==
    /\ cacheOp.op = "save" /\ cacheOp.id = NullId
    /\ cacheOp.result = "skipped"
    /\ \A k \in CacheKeys : storage[k] = NoVal

(* The sweep completes in this step.                                       *)
SweepCompletes == sweep' # sweep /\ sweep'.pc = "done"

C15_IndexClamped ==
    /\ [](quiz.impl # "none" =>
            /\ quiz.currentQuestionIndex \in 0..(quiz.totalQuestions - 1)
            /\ ~quiz.threw
            /\ (quiz.totalQuestions = 3 /\ quiz.nexts = MaxClicks
                   => quiz.currentQuestionIndex = 2))
    /\ [][\A direction \in {0 - 1, 1} :
            Navigate(direction) =>
              LET i == quiz.currentQuestionIndex
                  j == quiz'.currentQuestionIndex
                  last == quiz.totalQuestions - 1
              IN  /\ (direction = 0 - 1 /\ i = 0) => j = 0
                  /\ (direction = 1 /\ i = last) => j = last
                  /\ (direction = 1 /\ i < last) => j = i + 1
                  /\ (direction = 0 - 1 /\ i > 0) => j = i - 1]_vars

C15_Witness ==
    /\ quiz.totalQuestions = 3
    /\ quiz.nexts = 5
    /\ quiz.currentQuestionIndex = 2

(* C16: with 3 answered questions of which 3, 2, 1, 0 are correct, submit  *)
(* reports exactly the tier win, ok, partial, fail respectively.           *)
C16_ScoringTiers ==
    (quiz.result.tier # "none" /\ quiz.result.total = 3
        /\ quiz.result.answered = 3) =>
      quiz.result.tier =
        CASE quiz.result.correct = 3 -> "win"
          [] quiz.result.correct = 2 -> "ok"
          [] quiz.result.correct = 1 -> "partial"
          [] OTHER -> "fail"

(* The prose pieces of a response.                                         *)
Prose == {"text", "textBr", "nl", "lines"}

(* The response is one JSON array of cards with prose around it.           *)
WrappedArray(r) ==
    /\ Len(r) >= 2
    /\ Cardinality({i \in 1..Len(r) : r[i] \in {"array", "bigArray"}}) = 1
    /\ \A i \in 1..Len(r) : r[i] \in Prose \cup {"array", "bigArray"}

EmbeddedCards(r) ==
    IF \E i \in 1..Len(r) : r[i] = "bigArray" THEN ManyCount ELSE 2

(* C17: generateFlashcards never fails on an unparseable response: a valid *)
(* JSON array wrapped in prose yields the embedded array, free text        *)
(* without JSON yields naive pairs built from the response lines, and at   *)
(* most 10 cards are returned in every case.                               *)
C17_FlashcardParse ==
    flash.pc = "done" =>
      /\ flash.result.status = 200
      /\ flash.result.n <= CardLimit
      /\ WrappedArray(flash.response) =>
            /\ flash.result.from = "json"
            /\ flash.result.n = Min(EmbeddedCards(flash.response), CardLimit)
      /\ (\A i \in 1..Len(flash.response) : flash.response[i] \in Prose) =>
            /\ flash.result.from = "lines"
            /\ flash.result.n =
                  Min(NonBlankLines(Text(flash.response)), CardLimit)

(* C18: whenever a server usage check is available and succeeds, the       *)
(* client's allow/deny decision and the counters it displays are the       *)
(* server's; the local usage mirror is not what decides.                   *)
C18_ServerUsageWins ==
    /\ ui.check.serverOk =>
          /\ ui.check.from = "server"
          /\ ui.check.limitReached = (enhancements_used >= enhancements_limit)
    /\ ui.cards.serverOk =>
          /\ ui.cards.from = "server"
          /\ ui.cards.enhancementsUsed = enhancements_used
          /\ ui.cards.enhancementsLimit = enhancements_limit

(* A step is a client call that the server answered with 401.              *)
Answered401 ==
    /\ authToken = "expired"
    /\ \E reply \in Replies \ {NetErr} :
          \/ CheckUsageLimit(reply)
          \/ UpdateStatusCards(reply)
          \/ ProcessUploadedFile(reply)
          \/ GetUserUsage(reply)
          \/ \E provider \in BOOLEAN : CallBackendAPI(reply, provider)

(* C19: whenever a client call to the server is answered with 401, the     *)
(* stored auth token has been cleared when the handling of the call        *)
(* finishes.                                                               *)
C19_TokenClearedOn401 == [][Answered401 => authToken' = "none"]_vars

(* C20: a failed generation call is not retried: within one generation     *)
(* request each backend endpoint is called at most once and each backend   *)
(* call reaches the provider at most once; another attempt takes a new     *)
(* request by the user.                                                    *)
C20_NoAutomaticRetry ==
    /\ [](\A e \in GenEndpoints :
            /\ gen.backend[e] <= 1
            /\ gen.provider[e] <= gen.backend[e])
    /\ [][\A e \in GenEndpoints :
            gen'.backend[e] > gen.backend[e] =>
              /\ gen.backend[e] = 0
              /\ gen.pc = e]_vars
    /\ [][(gen.outcome = "error" /\ gen'.backend # gen.backend) =>
            \E action \in GenActions, hasSummary \in BOOLEAN :
                UserGenerate(action, hasSummary)]_vars

C20_Witness ==
    /\ gen.pc = "done"
    /\ gen.outcome = "error"
    /\ gen.action = "generate-quiz"
    /\ gen.backend["quiz"] = 1
    /\ gen.backend["summarize"] = 1

(* C21: a summarization of a video longer than 3600 seconds ends with the  *)
(* premium-required refusal when the caller is not premium, and a premium  *)
(* caller is never refused on duration.                                    *)
C21_PremiumRequired ==
    (panel.kind = "summary" /\ panel.pc = "done" /\
        panel.outcome # "refused") =>
       /\ (LongVideo(panel.duration) /\ ~panel.premium)
             => panel.outcome = "premiumRequired"
       /\ panel.premium => panel.outcome # "premiumRequired"

(* C22: over any sequence or interleaving of reset-password requests, one  *)
(* reset token changes the password at most once.                          *)
C22_TokenUsedOnce == \A t \in 1..MaxTokens : auth.changes[t] <= 1

C24_LoadingCleared ==
    (panel.pc = "done" /\ panel.outcome \in {"generated", "failed"})
       => ~panel.spinner[panel.kind]

(* C25: handling one generate-quiz request of the client raises the user's *)
(* usage counter by at most one, with or without a summary in the request. *)
C25_QuizChargedOnce ==
    gen.action = "generate-quiz" => enhancements_used <= gen.usedBefore + 1

(* C26: for a user who is not premium, any two accepted uploads (files or  *)
(* screenshots) are at least 24 hours apart, also when the second upload   *)
(* starts before the first has finished.                                   *)
C26_OneUploadPerDay ==
    ~upload.premium =>
       \A i \in 1..Len(upload.accepted), j \in 1..Len(upload.accepted) :
          i < j => upload.accepted[j] - upload.accepted[i] >= DAY

(* C27: a regeneration that ends without a new artifact, by a quota        *)
(* refusal or a failed generation, leaves the artifact that was cached     *)
(* before it in the cache.                                                 *)
C27_FailedRegenKeepsCache ==
    (panel.pc = "done" /\ panel.force /\ panel.hadCache /\
        panel.outcome \in {"refused", "failed"})
       => storage[PanelKey(panel.kind)] # NoVal

(* C28: after any sequence of switchTab calls, overlapping ones included,  *)
(* at most one tab content is active and it is the one activeTab names,    *)
(* the tab requested last.                                                 *)
C28_OneActiveTab ==
    /\ Cardinality(tabs.active) <= 1
    /\ tabs.active \subseteq {tabs.activeTab}
    /\ tabs.buttons = {tabs.activeTab}

(* The render of the quiz tab resolved after the user had moved on to the  *)
(* chat tab, while a render of the flashcards tab is still awaited.        *)
C28_Witness ==
    /\ tabs.rendered = "quiz"
    /\ tabs.activeTab = "chat"
    /\ tabs.active = {"chat"}
    /\ tabs.pending["flashcards"] > 0

(* C29: the forgot-password responses for a registered and for an          *)
(* unregistered email cannot be told apart by the caller.                  *)
C29_ForgotIndistinguishable ==
    \A e1 \in ValidEmails, e2 \in ValidEmails :
       (auth.forgot[e1] # NoResponse /\ auth.forgot[e2] # NoResponse)
          => Visible(auth.forgot[e1]) = Visible(auth.forgot[e2])

(* C30: whenever a flashcard is on screen its index is within              *)
(* [0, shown - 1], where shown = min(10, number of cards) of the set it    *)
(* was rendered from, after any sequence of card clicks, previous and next *)
(* clicks and changes of the card set.                                     *)
C30_FlashcardIndexInRange ==
    deck.shownIndex # NoVal =>
       /\ deck.shownIndex \in 0..(deck.shownLen - 1)
       /\ deck.shownLen <= CardLimit
       /\ ~deck.pending =>
             /\ deck.shownLen = CardsToShow(deck.count)
             /\ deck.index = deck.shownIndex

(* The second click on the tenth card of an eleven-card set wrapped to the *)
(* first card.                                                             *)
C30_Witness ==
    /\ deck.last = "card"
    /\ deck.count = ManyCount
    /\ deck.shownLen = CardLimit
    /\ deck.shownIndex = 0

====
